---- MODULE Spec2Model ----
EXTENDS Integers, Sequences, FiniteSets, TLC

(***************************************************************************)
(* Model of app/main.py: a FastAPI service that scrapes prices with        *)
(* Selenium.  Python strings that the code takes apart (URLs, price texts) *)
(* are tuples of one-character strings; strings the code only passes       *)
(* around (queries, sheet names, selectors) are TLA+ strings.              *)
(***************************************************************************)

\* ------------------------------------------------------------------ bounds
MaxRequests == 2    \* concurrent HTTP requests (SpecConc)
MaxSheets == 2      \* sheets of an uploaded workbook
MaxRows == 2        \* rows of a sheet
MaxQueries == 2     \* non-empty identifier cells of a workbook
MaxWorkers == 2     \* threads of the default executor
MaxProducts == 1    \* product containers on a result page (Spec, SpecConc)
ConcSheets == 1     \* sheets of a workbook uploaded in SpecConc
ConcRows == 1       \* rows of such a sheet
MaxContainers == 6  \* product containers on a result page (SpecTask)
MaxText == 4        \* characters of a price text (SpecPrice)

\* ------------------------------------------------------- string helpers
Digit == {"0", "1", "2", "3", "4", "5", "6", "7", "8", "9"}
NBSP == "nbsp"                       \* the character '\xa0'
Space == {" ", "tab"}                \* what the regex class \s matches

\* str.replace(a, b) for single characters a, b
ReplaceChar(s, a, b) == [i \in 1..Len(s) |-> IF s[i] = a THEN b ELSE s[i]]

\* str.replace(a, '') for a single character a
RemoveChar(s, a) == SelectSeq(s, LAMBDA c : c # a)

\* `sub in s` for Python strings
Contains(sub, s) ==
    \E i \in 1..(Len(s) - Len(sub) + 1) : SubSeq(s, i, i + Len(sub) - 1) = sub

\* index of the first character of s at or after `from` that is in S, or Len(s)+1
RECURSIVE IndexOfFirst(_, _, _)
IndexOfFirst(s, from, S) ==
    IF from > Len(s) \/ s[from] \in S THEN from ELSE IndexOfFirst(s, from + 1, S)

\* last index of the longest run of characters of S that starts at i (i-1 if none)
RECURSIVE RunEnd(_, _, _)
RunEnd(s, i, S) ==
    IF i <= Len(s) /\ s[i] \in S THEN RunEnd(s, i + 1, S) ELSE i - 1

Min(a, b) == IF a <= b THEN a ELSE b

\* urlparse(url).netloc: what follows "scheme://" up to the next "/", "?" or "#"
netloc(url) ==
    LET c == IndexOfFirst(url, 1, {":"})
    IN  IF c + 2 <= Len(url) /\ url[c + 1] = "/" /\ url[c + 2] = "/"
        THEN SubSeq(url, c + 3, IndexOfFirst(url, c + 3, {"/", "?", "#"}) - 1)
        ELSE <<>>

\* ------------------------------------------------------------ sentinels
\* The Cyrillic literals of the source, transliterated; each is one token.
NOT_FOUND == <<"Ne naideno">>
PRICE_ON_REQUEST == <<"Tsena po zaprosu">>

\* ------------------------------------------------------------ clean_price
\* re.search(r'(\d[\d\s]*[.,]?\d{0,2})', text): leftmost match, every
\* quantifier greedy; nothing after a quantifier is mandatory, so the greedy
\* choice is the match.
\* a mutant of re_search: re.match, which matches at the start only
re_search_AtStart(text) ==
    LET j  == RunEnd(text, 2, Digit \cup Space)
        k  == IF j + 1 <= Len(text) /\ text[j + 1] \in {".", ","} THEN j + 1 ELSE j
        m  == Min(RunEnd(text, k + 1, Digit), k + 2)
    IN  IF text = <<>> \/ text[1] \notin Digit
        THEN [found |-> FALSE, group |-> <<>>]
        ELSE [found |-> TRUE, group |-> SubSeq(text, 1, m)]

re_search(text) ==
    LET i0 == IndexOfFirst(text, 1, Digit)
        j  == RunEnd(text, i0 + 1, Digit \cup Space)
        k  == IF j + 1 <= Len(text) /\ text[j + 1] \in {".", ","} THEN j + 1 ELSE j
        m  == Min(RunEnd(text, k + 1, Digit), k + 2)
    IN  IF i0 > Len(text)
        THEN [found |-> FALSE, group |-> <<>>]
        ELSE [found |-> TRUE, group |-> SubSeq(text, i0, m)]

clean_price(price_text) ==
    LET match == re_search(ReplaceChar(price_text, NBSP, " "))
    IN  IF match.found
        THEN ReplaceChar(RemoveChar(match.group, " "), ",", ".") \o <<" ">>
        ELSE PRICE_ON_REQUEST

\* ---------------------------------------------------------- get_selectors
selector_map == <<
    [key |-> <<"n","u","r","-","e","l","e","c","t","r","o",".","k","z">>,
     sel |-> <<"CLASS_NAME", "products", "CLASS_NAME", "price">>],
    [key |-> <<"e","u","r","o","e","l","e","c","t","r","i","c",".","k","z">>,
     sel |-> <<"CLASS_NAME", "product-item", "CLASS_NAME", "product-price">>],
    [key |-> <<"2","2","0","v","o","l","t",".","k","z">>,
     sel |-> <<"CLASS_NAME", "cards__list", "CLASS_NAME",
               "product__buy-info-price-actual_value">>],
    [key |-> <<"e","k","t",".","k","z">>,
     sel |-> <<"CLASS_NAME", "left-block", "CLASS_NAME", "price">>],
    [key |-> <<"i","n","t","a","n","t",".","k","z">>,
     sel |-> <<"CLASS_NAME", "product_card__block_item_inner", "CLASS_NAME",
               "product-card-inner__new-price">>],
    [key |-> <<"e","l","c","e","n","t","r","e",".","k","z">>,
     sel |-> <<"CLASS_NAME", "b-product-gallery", "XPATH",
               ".//span[@class='b-product-gallery__current-price']">>],
    [key |-> <<"a","l","b","i","o","n","-","g","r","o","u","p",".","k","z">>,
     sel |-> <<"CLASS_NAME", "cs-product-gallery", "CSS_SELECTOR",
               "span.cs-goods-price__value.cs-goods-price__value_type_current">>],
    [key |-> <<"v","o","l","t",".","k","z">>,
     sel |-> <<"CLASS_NAME", "multi-snippet", "XPATH",
               ".//span[@class='multi-price']">> ] >>

\* a mutant of get_selectors: the last matching entry instead of the first
get_selectors_LastMatch(target_url) ==
    CHOOSE found \in
        {LET hits == {i \in 1..Len(selector_map) :
                         Contains(selector_map[i].key, domain)}
         IN  IF hits = {}
             THEN [ok |-> FALSE, product |-> <<>>, price |-> <<>>]
             ELSE LET i == CHOOSE h \in hits : \A g \in hits : h >= g
                      s == selector_map[i].sel
                  IN  [ok |-> TRUE, product |-> <<s[1], s[2]>>,
                       price |-> <<s[3], s[4]>>] :
         domain \in {netloc(target_url)}} : TRUE

\* The first entry of selector_map, in insertion order, whose key is a
\* substring of the domain; ok = FALSE stands for `raise ValueError`.
\* (domain ranges over a one-element set: urlparse is called once.)
get_selectors(target_url) ==
    CHOOSE found \in
        {LET hits == {i \in 1..Len(selector_map) :
                         Contains(selector_map[i].key, domain)}
         IN  IF hits = {}
             THEN [ok |-> FALSE, product |-> <<>>, price |-> <<>>]
             ELSE LET i == CHOOSE h \in hits : \A g \in hits : h <= g
                      s == selector_map[i].sel
                  IN  [ok |-> TRUE, product |-> <<s[1], s[2]>>,
                       price |-> <<s[3], s[4]>>] :
         domain \in {netloc(target_url)}} : TRUE

TARGET_URLS == <<
    <<"h","t","t","p","s",":","/","/","2","2","0","v","o","l","t",".","k","z",
      "/","s","e","a","r","c","h","?","q","u","e","r","y","=">>,
    <<"h","t","t","p","s",":","/","/","e","l","c","e","n","t","r","e",".","k","z",
      "/","s","i","t","e","_","s","e","a","r","c","h","?",
      "s","e","a","r","c","h","_","t","e","r","m","=">> >>


\* header of the identifier column (a Cyrillic literal in the source), one token
ARTIKUL == <<"Artikul">>

\* ------------------------------------------------------------ Python values
\* A result cell is a list of strings or a string: the type is kept, and
\* the value is the list, or the one string in a tuple.
PyList(v) == [t |-> "list", v |-> v]
PyStr(v) == [t |-> "str", v |-> <<v>>]

\* ---------------------------------------------------------------- inputs
NaN == "NaN"                              \* an empty identifier cell
SheetNames == <<"S1", "S2", "S3">>
\* the identifier a cell holds when it is not empty, by sheet and row: the
\* identifiers of a workbook are distinct, so a row names the cell it is from
Ident == << <<"a1", "a2", "a3">>, <<"b1", "b2", "b3">>, <<"c1", "c2", "c3">> >>
Queries == {Ident[i][1] : i \in 1..2}     \* what a search asks for

SeqsUpTo(S, n) == UNION {[1..k -> S] : k \in 0..n}

\* price texts a price element can show
T1 == <<"1", " ", "2", ",", "5">>
T2 == <<"x">>

\* a product container: with a price element showing `text`, or without one
NoPrice == [has |-> FALSE, text |-> <<>>]
Priced(text) == [has |-> TRUE, text |-> text]
Pages(texts, n) == SeqsUpTo({NoPrice} \cup {Priced(x) : x \in texts}, n)

NonEmpty(col) == SelectSeq(col, LAMBDA c : c # NaN)

\* the sheets at position i: without the identifier column (col is then a
\* column of another name, of one cell), or with one of up to maxRows cells
Sheets(i, maxRows) ==
    {[hasCol |-> FALSE, col |-> <<Ident[i][1]>>]}
    \cup {[hasCol |-> TRUE, col |-> c] :
            c \in UNION {{f \in [1..k -> {NaN} \cup {Ident[i][j] : j \in 1..k}] :
                            \A j \in 1..k : f[j] \in {NaN, Ident[i][j]}} :
                         k \in 0..maxRows}}

RECURSIVE SumLen(_)
SumLen(ss) == IF ss = <<>> THEN 0 ELSE Len(ss[1]) + SumLen(Tail(ss))

\* workbooks: 1..MaxSheets sheets, named by position, at most MaxQueries identifiers
Workbooks(maxSheets, maxRows, maxQueries) ==
    {wb \in UNION {{f \in [1..k -> UNION {Sheets(i, maxRows) : i \in 1..k}] :
                        \A i \in 1..k : f[i] \in Sheets(i, maxRows)} :
                   k \in 1..maxSheets} :
        SumLen([i \in 1..Len(wb) |-> IF wb[i].hasCol THEN NonEmpty(wb[i].col)
                                     ELSE <<>>]) <= maxQueries}

\* readable: whether pd.read_excel can read the uploaded file; err: why
\* process_excel_file gave up ("read", "task", "write"), "" when it did not
NewRequest(kind, wb, artikul) ==
    [kind |-> kind, wb |-> wb, artikul |-> artikul, st |-> "new",
     sq |-> <<>>, cur |-> 0, bids |-> <<>>, final_data |-> <<>>, resp |-> <<>>,
     readable |-> TRUE, err |-> ""]

\* an upload of a file that is no workbook
Unreadable == [NewRequest("upload", <<>>, "") EXCEPT !.readable = FALSE]

UploadRequests(wbs) == {NewRequest("upload", wb, "") : wb \in wbs} \cup {Unreadable}
SearchRequests == {NewRequest("search", <<>>, q) : q \in Queries}

\* ----------------------------------------------------------------- state
VARIABLES
    reqs,       \* request handlers (coroutines upload_file / search_artikul)
    batches,    \* one asyncio.gather over the sites of a query, per query
    tasks,      \* scrape_prices calls handed to the executor
    queue,      \* the executor's work queue (task ids, FIFO)
    mgrs,       \* WebDriverManager objects: their driver field (0 = None)
    sessions,   \* browser sessions (webdriver.Chrome objects)
    outfile,    \* the file outputs/merged.xlsx
    web         \* result pages the sites may serve

vars == <<reqs, batches, tasks, queue, mgrs, sessions, outfile, web>>

NSites == Len(TARGET_URLS)

\* a mutant of Running: a thread counts as busy only until its page is loaded
Running_UntilLoaded(t) == tasks[t].pc = "get"

Running(t) == tasks[t].pc \in {"get", "selectors", "wait"}
Finished(t) == tasks[t].pc \in {"done", "raised"}
NRunning == Cardinality({t \in 1..Len(tasks) : Running(t)})

\* ------------------------------------------------- extract_search_queries
\* a mutant of dropna: the empty cells are kept
dropna_KeepAll(col) == col

\* df[...].dropna().tolist()
dropna(col) == SelectSeq(col, LAMBDA c : c # NaN)

\* a mutant of extract_from: every sheet's column, whatever its name
RECURSIVE extract_from_AnyColumn(_, _)
extract_from_AnyColumn(wb, i) ==
    IF i > Len(wb) THEN <<>>
    ELSE <<[sheet |-> SheetNames[i], queries |-> dropna(wb[i].col)]>>
         \o extract_from_AnyColumn(wb, i + 1)

\* the sheets that have the column, in the order of the workbook
RECURSIVE extract_from(_, _)
extract_from(wb, i) ==
    IF i > Len(wb) THEN <<>>
    ELSE (IF wb[i].hasCol
          THEN <<[sheet |-> SheetNames[i], queries |-> dropna(wb[i].col)]>>
          ELSE <<>>) \o extract_from(wb, i + 1)

extract_search_queries(dfs) == extract_from(dfs, 1)

\* ------------------------------------------------------------ save_results
Header == <<ARTIKUL>> \o [i \in 1..NSites |-> netloc(TARGET_URLS[i])]

\* pd.DataFrame(data, columns=...) raises when a row has another length
save_ok(final_data) ==
    \A i \in 1..Len(final_data) : \A j \in 1..Len(final_data[i].rows) :
        Len(final_data[i].rows[j]) = Len(Header)

save_results(final_data) ==
    [exists |-> TRUE,
     sheets |-> [i \in 1..Len(final_data) |->
                    [sheet |-> final_data[i].sheet, header |-> Header,
                     rows |-> final_data[i].rows]]]

\* ------------------------------------------------------------------ gather
\* asyncio.gather(*tasks) without return_exceptions: it fails as soon as a
\* child has failed and otherwise completes when every child has completed.
GatherRaised(b) == \E i \in 1..Len(b.tids) : tasks[b.tids[i]].pc = "raised"
GatherAllDone(b) == \A i \in 1..Len(b.tids) : tasks[b.tids[i]].pc = "done"
GatherReady(b) == GatherRaised(b) \/ GatherAllDone(b)

\* a mutant of GatherResults: the results in the order of completion
GatherResults_AsCompleted(b) == [i \in 1..Len(b.order) |-> tasks[b.order[i]].ret]

\* the list gather returns: the children's results in the order of the children
GatherResults(b) == [i \in 1..Len(b.tids) |-> tasks[b.tids[i]].ret]

\* a mutant of RowCell: the result as it is
RowCell_NoDefault(result) == PyList(result)

\* `result if result else NOT_FOUND` (process_single_query)
RowCell(result) == IF result # <<>> THEN PyList(result) ELSE PyStr(NOT_FOUND)

\* a mutant of SearchPrices: the result as it is
SearchPrices_NoDefault(prices) == prices

\* `prices if prices else [NOT_FOUND]` (search_artikul)
SearchPrices(prices) == IF prices # <<>> THEN prices ELSE <<NOT_FOUND>>


\* ------------------------------------------------------------ scrape_prices
MaxScan == 5                          \* products[:5]

\* a mutant of scan_from: the loop ends at a container without a price element
RECURSIVE scan_from_Break(_, _)
scan_from_Break(products, i) ==
    IF i > Min(Len(products), MaxScan) \/ ~products[i].has THEN <<>>
    ELSE <<clean_price(products[i].text)>> \o scan_from_Break(products, i + 1)

\* the loop over products[:5]: a container without a price element is skipped
RECURSIVE scan_from(_, _)
scan_from(products, i) ==
    IF i > Min(Len(products), MaxScan) THEN <<>>
    ELSE (IF products[i].has THEN <<clean_price(products[i].text)>> ELSE <<>>)
         \o scan_from(products, i + 1)

ScanProducts(products) ==
    LET prices == scan_from(products, 1)
    IN  IF prices # <<>> THEN prices ELSE <<NOT_FOUND>>

\* a mutant of WebDriverManager: one manager for all the calls (a singleton)
WebDriverManager_Singleton(ms) == 1

\* WebDriverManager(): the object the constructor call yields, a new one
WebDriverManager(ms) == Len(ms) + 1

NewTask(b, query, url) ==
    [b |-> b, query |-> query, url |-> url, pc |-> "queued", driver |-> 0,
     why |-> "", sel |-> <<>>, products |-> <<>>, ret |-> <<>>]

\* the task's future completes: with a result, or with the exception raised
Complete(t, pc, why, products, ret) ==
    LET b == tasks[t].b
    IN  /\ tasks' = [tasks EXCEPT ![t].pc = pc, ![t].why = why,
                                  ![t].products = products, ![t].ret = ret]
        /\ batches' = IF b = 0 THEN batches
                      ELSE [batches EXCEPT ![b].order = Append(@, t)]

Return(t, why, ret) == Complete(t, "done", why, <<>>, ret)

\* A worker thread takes the next task; line 141: get_driver() starts a browser.
StartTask ==
    /\ queue # <<>>
    /\ NRunning < MaxWorkers
    /\ LET t == Head(queue)
           m == WebDriverManager(mgrs)
           ms == IF m > Len(mgrs) THEN Append(mgrs, 0) ELSE mgrs
       IN  /\ queue' = Tail(queue)
           /\ IF ms[m] = 0
              THEN /\ sessions' = Append(sessions, [live |-> TRUE])
                   /\ mgrs' = [ms EXCEPT ![m] = Len(sessions) + 1]
                   /\ tasks' = [tasks EXCEPT ![t].pc = "get",
                                             ![t].driver = Len(sessions) + 1]
              ELSE /\ UNCHANGED sessions
                   /\ mgrs' = ms
                   /\ tasks' = [tasks EXCEPT ![t].pc = "get", ![t].driver = ms[m]]
    /\ UNCHANGED <<reqs, batches, outfile, web>>

\* line 141 raises (webdriver.Chrome cannot start): outside the try block,
\* so scrape_prices raises and the task's future gets the exception.
LaunchFail ==
    /\ queue # <<>>
    /\ NRunning < MaxWorkers
    /\ LET t == Head(queue)
           m == WebDriverManager(mgrs)
           ms == IF m > Len(mgrs) THEN Append(mgrs, 0) ELSE mgrs
       IN  /\ ms[m] = 0
           /\ queue' = Tail(queue)
           /\ mgrs' = ms
           /\ Complete(t, "raised", "launch", <<>>, <<>>)
    /\ UNCHANGED <<reqs, sessions, outfile, web>>

\* line 145: driver.get(full_url) returns
Navigate(t) ==
    /\ tasks[t].pc = "get"
    /\ tasks' = [tasks EXCEPT ![t].pc = "selectors"]
    /\ UNCHANGED <<reqs, batches, queue, mgrs, sessions, outfile, web>>

\* line 145 raises: caught at line 160, the task returns []
NavigateFail(t) ==
    /\ tasks[t].pc = "get"
    /\ Return(t, "nav", <<>>)
    /\ UNCHANGED <<reqs, queue, mgrs, sessions, outfile, web>>

\* line 147: get_selectors(target_url); its ValueError is caught at line 160
Resolve(t) ==
    /\ tasks[t].pc = "selectors"
    /\ \E found \in {get_selectors(tasks[t].url)} :
          IF found.ok
          THEN /\ tasks' = [tasks EXCEPT ![t].pc = "wait",
                                         ![t].sel = <<found.product, found.price>>]
               /\ UNCHANGED batches
          ELSE Return(t, "unsupported", <<>>)
    /\ UNCHANGED <<reqs, queue, mgrs, sessions, outfile, web>>

\* lines 148-159: the page shows the containers `products`.  The wait times
\* out when there is none (caught at line 160); otherwise find_elements
\* returns them, the first ones are scanned and the prices returned.
Wait(t) ==
    /\ tasks[t].pc = "wait"
    /\ \E products \in web :
          IF Len(products) = 0
          THEN Return(t, "timeout", <<>>)
          ELSE Complete(t, "done", "scanned", products, ScanProducts(products))
    /\ UNCHANGED <<reqs, queue, mgrs, sessions, outfile, web>>

\* lines 148-157 raise something else (the session crashed): caught at line 160
Crash(t) ==
    /\ tasks[t].pc = "wait"
    /\ Return(t, "crash", <<>>)
    /\ UNCHANGED <<reqs, queue, mgrs, sessions, outfile, web>>

NextTask ==
    \/ StartTask
    \/ LaunchFail
    \/ \E t \in 1..Len(tasks) : Navigate(t)
    \/ \E t \in 1..Len(tasks) : NavigateFail(t)
    \/ \E t \in 1..Len(tasks) : Resolve(t)
    \/ \E t \in 1..Len(tasks) : Wait(t)
    \/ \E t \in 1..Len(tasks) : Crash(t)


\* ------------------------------------------------------------ coordinators
\* One gather per query over run_selenium_task(scrape_prices, query, url) for
\* url in TARGET_URLS; run_in_executor puts the calls on the executor's queue.
Submit(r, qs) ==
    LET nb == Len(batches)
        nt == Len(tasks)
        n == Len(qs) * NSites
    IN  /\ batches' = batches \o
              [k \in 1..Len(qs) |->
                  [req |-> r, query |-> qs[k],
                   tids |-> [i \in 1..NSites |-> nt + (k - 1) * NSites + i],
                   order |-> <<>>, st |-> "await", row |-> <<>>]]
        /\ tasks' = tasks \o
              [j \in 1..n |->
                  NewTask(nb + ((j - 1) \div NSites) + 1,
                          qs[((j - 1) \div NSites) + 1],
                          TARGET_URLS[((j - 1) % NSites) + 1])]
        /\ queue' = queue \o [j \in 1..n |-> nt + j]

NewBids(qs) == [k \in 1..Len(qs) |-> Len(batches) + k]

\* process_all_sheets passes a sheet without queries without suspending:
\* gather() of nothing is complete at once and the sheet's data is [].
RECURSIVE Advance(_, _, _)
Advance(sq, k, fd) ==
    IF k <= Len(sq) /\ sq[k].queries = <<>>
    THEN Advance(sq, k + 1, Append(fd, [sheet |-> sq[k].sheet, rows |-> <<>>]))
    ELSE [cur |-> k, final_data |-> fd]

\* process_all_sheets from sheet k on, up to its next suspension: the tasks of
\* the next sheet with queries are submitted, or save_results runs.
Continue(r, req, k, fd) ==
    LET a == Advance(req.sq, k, fd)
    IN  IF a.cur > Len(req.sq)
        THEN \E writable \in BOOLEAN :      \* whether the output file can be written
             LET ok == writable /\ save_ok(a.final_data)
             IN  /\ reqs' = [reqs EXCEPT ![r] =
                        [req EXCEPT !.st = IF ok THEN "saved" ELSE "failed",
                                    !.err = IF ok THEN "" ELSE "write",
                                    !.cur = a.cur, !.bids = <<>>,
                                    !.final_data = a.final_data]]
                 /\ outfile' = IF ok THEN save_results(a.final_data) ELSE outfile
                 /\ UNCHANGED <<batches, tasks, queue>>
        ELSE /\ Submit(r, req.sq[a.cur].queries)
             /\ reqs' = [reqs EXCEPT ![r] =
                    [req EXCEPT !.st = "sheets", !.cur = a.cur,
                                !.bids = NewBids(req.sq[a.cur].queries),
                                !.final_data = a.final_data]]
             /\ UNCHANGED outfile

\* upload_file -> process_excel_file up to the first suspension.  The input
\* file is written (line 203) and read back (line 95) with no suspension in
\* between, so the workbook read is the one uploaded; load_excel_sheets raises
\* when the file is no workbook, which line 99 catches.
UploadStart(r) ==
    /\ reqs[r].kind = "upload"
    /\ reqs[r].st = "new"
    /\ IF reqs[r].readable
       THEN Continue(r, [reqs[r] EXCEPT !.sq = extract_search_queries(reqs[r].wb)],
                     1, <<>>)
       ELSE /\ reqs' = [reqs EXCEPT ![r].st = "failed", ![r].err = "read"]
            /\ UNCHANGED <<batches, tasks, queue, outfile>>
    /\ UNCHANGED <<mgrs, sessions, web>>

\* a mutant of BuildRow: an empty result adds no cell
BuildRow_SkipEmpty(query, results) ==
    <<PyStr(<<query>>)>> \o
    SelectSeq([i \in 1..Len(results) |-> RowCell(results[i])],
              LAMBDA c : c # PyStr(NOT_FOUND))

\* lines 124-129: the row of a query
BuildRow(query, results) ==
    <<PyStr(<<query>>)>> \o [i \in 1..Len(results) |-> RowCell(results[i])]

\* process_single_query resumes from `await asyncio.gather(*tasks)`
ResumeQuery(b) ==
    /\ batches[b].st = "await"
    /\ reqs[batches[b].req].kind = "upload"
    /\ GatherReady(batches[b])
    /\ batches' = [batches EXCEPT ![b] =
          IF GatherRaised(batches[b])
          THEN [batches[b] EXCEPT !.st = "raised"]
          ELSE [batches[b] EXCEPT
                   !.st = "row",
                   !.row = BuildRow(batches[b].query, GatherResults(batches[b]))]]
    /\ UNCHANGED <<reqs, tasks, queue, mgrs, sessions, outfile, web>>

\* process_sheet_queries resumes from its gather over the queries of the
\* sheet: with the rows in query order, or with the exception of a query,
\* which process_excel_file logs (line 100) before it returns.
ResumeSheet(r) ==
    LET bs == reqs[r].bids
    IN  /\ reqs[r].st = "sheets"
        /\ \/ \E i \in 1..Len(bs) : batches[bs[i]].st = "raised"
           \/ \A i \in 1..Len(bs) : batches[bs[i]].st = "row"
        /\ IF \E i \in 1..Len(bs) : batches[bs[i]].st = "raised"
           THEN /\ reqs' = [reqs EXCEPT ![r].st = "failed", ![r].err = "task"]
                /\ UNCHANGED <<batches, tasks, queue, outfile>>
           ELSE Continue(r, reqs[r], reqs[r].cur + 1,
                         Append(reqs[r].final_data,
                                [sheet |-> reqs[r].sq[reqs[r].cur].sheet,
                                 rows |-> [i \in 1..Len(bs) |-> batches[bs[i]].row]]))
        /\ UNCHANGED <<mgrs, sessions, web>>

\* what FileResponse(result_file) sends: the file as it is when the response
\* is sent, or a server error when there is no such file
FileResponse(file) ==
    IF file.exists THEN <<[status |-> "file", sheets |-> file.sheets]>>
    ELSE <<[status |-> "error", sheets |-> <<>>]>>

\* lines 206-207: process_excel_file has returned, with the table saved or
\* with its exception logged; upload_file answers with the output file, which
\* is read when the response is sent.
Respond(r) ==
    /\ reqs[r].kind = "upload"
    /\ reqs[r].st \in {"saved", "failed"}
    /\ reqs[r].resp = <<>>
    /\ reqs' = [reqs EXCEPT ![r].resp = FileResponse(outfile)]
    /\ UNCHANGED <<batches, tasks, queue, mgrs, sessions, outfile, web>>

\* search_artikul up to `await asyncio.gather(*tasks)`
SearchStart(r) ==
    /\ reqs[r].kind = "search"
    /\ reqs[r].st = "new"
    /\ Submit(r, <<reqs[r].artikul>>)
    /\ reqs' = [reqs EXCEPT ![r].st = "await",
                            ![r].bids = NewBids(<<reqs[r].artikul>>)]
    /\ UNCHANGED <<mgrs, sessions, outfile, web>>

\* lines 187-193: the response of a search
SearchResults(artikul, results) ==
    [i \in 1..Len(results) |->
        [Artikul |-> artikul, URL |-> TARGET_URLS[i],
         Prices |-> SearchPrices(results[i])]]

\* search_artikul resumes: with the results, or with the exception (line 194)
ResumeSearch(r) ==
    /\ reqs[r].kind = "search"
    /\ reqs[r].st = "await"
    /\ LET b == reqs[r].bids[1]
       IN  /\ GatherReady(batches[b])
           /\ IF GatherRaised(batches[b])
              THEN /\ reqs' = [reqs EXCEPT ![r].st = "error"]
                   /\ batches' = [batches EXCEPT ![b].st = "raised"]
              ELSE /\ reqs' = [reqs EXCEPT ![r].st = "ok",
                         ![r].resp = SearchResults(reqs[r].artikul,
                                                   GatherResults(batches[b]))]
                   /\ batches' = [batches EXCEPT ![b].st = "returned"]
    /\ UNCHANGED <<tasks, queue, mgrs, sessions, outfile, web>>

\* ---------------------------------------------------------- specifications
InitWith(R, W) ==
    /\ reqs \in R
    /\ batches = <<>>
    /\ tasks = <<>>
    /\ queue = <<>>
    /\ mgrs = <<>>
    /\ sessions = <<>>
    /\ outfile = [exists |-> FALSE, sheets |-> <<>>]
    /\ web = W

\* one request: an upload of any workbook within the bounds, or a search
Init ==
    InitWith({<<q>> : q \in UploadRequests(Workbooks(MaxSheets, MaxRows, MaxQueries))
                            \cup SearchRequests},
             Pages({T1}, MaxProducts))

\* the steps of the event loop: the coroutines of the requests
Handlers ==
    \/ \E r \in 1..Len(reqs) : UploadStart(r)
    \/ \E r \in 1..Len(reqs) : SearchStart(r)
    \/ \E b \in 1..Len(batches) : ResumeQuery(b)
    \/ \E r \in 1..Len(reqs) : ResumeSheet(r)
    \/ \E r \in 1..Len(reqs) : ResumeSearch(r)
    \/ \E r \in 1..Len(reqs) : Respond(r)

Next ==
    \/ Handlers
    \/ NextTask

Spec == Init /\ [][Next]_vars

\* one request, an upload of a one-sheet workbook or a search, under fair
\* scheduling: the event loop runs a coroutine that is ready, and a worker
\* thread that can take a step takes it (every blocking call of
\* scrape_prices returns: the wait at line 148 within its 15 s).
InitFair ==
    InitWith({<<q>> : q \in UploadRequests(Workbooks(ConcSheets, MaxRows, MaxQueries))
                            \cup SearchRequests},
             Pages({T1}, MaxProducts))

SpecFair == InitFair /\ [][Next]_vars /\ WF_vars(Handlers) /\ WF_vars(NextTask)

\* several requests handled concurrently, each a search or a small upload
InitConc ==
    InitWith(UNION {[1..n -> UploadRequests(Workbooks(ConcSheets, ConcRows, ConcRows))
                             \cup SearchRequests] : n \in 1..MaxRequests},
             Pages({T1}, MaxProducts))

SpecConc == InitConc /\ [][Next]_vars

\* scrape_prices alone: one call, handed to the executor, for a URL of a
\* site that is registered or not and pages of up to MaxContainers containers
UNREGISTERED_URL ==
    <<"h","t","t","p","s",":","/","/","e","x","a","m","p","l","e",".","k","z",
      "/","s","?","q","=">>

\* a search URL of a site, for its domain
SiteUrl(domain) ==
    <<"h","t","t","p","s",":","/","/">> \o domain \o <<"/","s","?","q","=">>

WWW == <<"w","w","w",".">>

\* URLs of every registered site, under its domain and under www.<domain>
RegisteredUrls ==
    {SiteUrl(selector_map[i].key) : i \in 1..Len(selector_map)}
    \cup {SiteUrl(WWW \o selector_map[i].key) : i \in 1..Len(selector_map)}

TaskUrls ==
    {TARGET_URLS[i] : i \in 1..NSites} \cup {UNREGISTERED_URL} \cup RegisteredUrls

InitTask ==
    /\ reqs = <<>>
    /\ batches = <<>>
    /\ tasks \in {<<NewTask(0, q, u)>> : q \in Queries, u \in TaskUrls}
    /\ queue = <<1>>
    /\ mgrs = <<>>
    /\ sessions = <<>>
    /\ outfile = [exists |-> FALSE, sheets |-> <<>>]
    /\ web = Pages({T1, T2}, MaxContainers)

SpecTask == InitTask /\ [][NextTask]_vars

\* clean_price alone: one call of scrape_prices for a page of one container
\* whose price element has any text of up to MaxText characters
PriceChars == {"1", "2", " ", "tab", NBSP, ",", ".", "x"}

InitPrice ==
    /\ reqs = <<>>
    /\ batches = <<>>
    /\ tasks = <<NewTask(0, Ident[1][1], TARGET_URLS[1])>>
    /\ queue = <<1>>
    /\ mgrs = <<>>
    /\ sessions = <<>>
    /\ outfile = [exists |-> FALSE, sheets |-> <<>>]
    /\ web = {<<Priced(x)>> : x \in SeqsUpTo(PriceChars, MaxText)}

SpecPrice == InitPrice /\ [][NextTask]_vars

\* one request for one identifier, an upload or a search, over pages of up to
\* MaxContainers containers
InitCells ==
    InitWith({<<q>> : q \in {NewRequest("upload", wb, "") :
                                wb \in {<<[hasCol |-> TRUE, col |-> <<id>>]>> :
                                           id \in {Ident[1][1]}}}
                            \cup SearchRequests},
             Pages({T1}, MaxContainers))

SpecCells == InitCells /\ [][Next]_vars


\* ================================================================== claims
TaskIds == 1..Len(tasks)
BatchIds == 1..Len(batches)
ReqIds == 1..Len(reqs)
Sites == 1..NSites

\* the sentinel "error" of the specification (the code has no such literal)
ERROR == <<"error">>

\* C1: for every batch submitted together, whatever the completion order,
\* the i-th result the coordinator gets is the result of the i-th submitted
\* task, the task of the batch's query for the i-th target URL: in a row the
\* cell of site i is made of it, in a search response the entry of site i.
C1_ResultsAlignedWithTasks ==
    /\ \A b \in BatchIds : \A i \in Sites :
          LET t == batches[b].tids[i]
          IN  /\ tasks[t].url = TARGET_URLS[i]
              /\ tasks[t].query = batches[b].query
              /\ batches[b].st = "row"
                    => batches[b].row[i + 1] = RowCell(tasks[t].ret)
    /\ \A r \in ReqIds : reqs[r].st = "ok" =>
          \A i \in Sites :
             LET t == batches[reqs[r].bids[1]].tids[i]
             IN  /\ reqs[r].resp[i].URL = tasks[t].url
                 /\ reqs[r].resp[i].Prices = SearchPrices(tasks[t].ret)

\* a row was built from tasks that completed in the reverse of the submission
\* order and with different results
C1_Witness ==
    \E b \in BatchIds :
       /\ batches[b].st = "row"
       /\ batches[b].order = <<batches[b].tids[2], batches[b].tids[1]>>
       /\ tasks[batches[b].tids[1]].ret # tasks[batches[b].tids[2]].ret

C3_SessionsReleased ==
    \A s \in 1..Len(sessions) : sessions[s].live =>
       \E t \in TaskIds : Running(t) /\ tasks[t].driver = s

\* C4 (as claimed): a task whose session fails to start gets the cell
\* "error", the other tasks of the batch get their own results, and the
\* upload is not aborted.
C4_LaunchFailureIsolated ==
    /\ \A b \in BatchIds :
          (batches[b].st # "await" /\ reqs[batches[b].req].kind = "upload") =>
             /\ batches[b].st = "row"
             /\ \A i \in Sites :
                   LET t == batches[b].tids[i]
                   IN  batches[b].row[i + 1] =
                          IF tasks[t].why = "launch" THEN PyStr(ERROR)
                          ELSE RowCell(tasks[t].ret)
    /\ \A r \in ReqIds :
          /\ reqs[r].st # "error"
          /\ reqs[r].st = "failed" => reqs[r].err # "task"

\* C5: in every row, the cell of a task whose wait timed out (no container
\* showed up) is exactly the sentinel NOT_FOUND, the cell of a task that
\* found containers holds the prices scanned from its own page, and the row
\* has a cell for every site; a timeout never keeps the row from being built.
C5_TimeoutIsNotFound ==
    \A b \in BatchIds :
       /\ batches[b].st = "row" =>
             /\ Len(batches[b].row) = 1 + NSites
             /\ \A i \in Sites :
                   LET t == batches[b].tids[i]
                   IN  /\ tasks[t].why = "timeout"
                          => batches[b].row[i + 1] = PyStr(NOT_FOUND)
                       /\ tasks[t].why = "scanned"
                          => batches[b].row[i + 1] =
                                PyList(ScanProducts(tasks[t].products))
       /\ (batches[b].st = "raised" /\ reqs[batches[b].req].kind = "upload") =>
             \E i \in Sites : tasks[batches[b].tids[i]].why = "launch"

\* a row with a timed-out cell beside a cell with a price
C5_Witness ==
    \E b \in BatchIds :
       /\ batches[b].st = "row"
       /\ tasks[batches[b].tids[1]].why = "timeout"
       /\ tasks[batches[b].tids[2]].why = "scanned"
       /\ batches[b].row[3] = PyList(<<clean_price(T1)>>)

\* C6 (as claimed): a task that failed for another reason than a timeout
\* (navigation failed, the session crashed) gets the cell "error", which is
\* not the sentinel NOT_FOUND.
C6_FailureIsError ==
    \A b \in BatchIds : batches[b].st = "row" =>
       \A i \in Sites :
          tasks[batches[b].tids[i]].why \in {"nav", "crash"}
             => /\ batches[b].row[i + 1] = PyStr(ERROR)
                /\ batches[b].row[i + 1] # PyStr(NOT_FOUND)

\* C7 (as claimed): a task for a URL of no registered site fails before a
\* session is acquired and before navigation, and the error is raised.
C7_UnsupportedFailsFast ==
    \A t \in TaskIds : ~get_selectors(tasks[t].url).ok =>
       /\ tasks[t].driver = 0
       /\ tasks[t].pc \in {"queued", "raised"}

\* C8 (as claimed): the coordinator has resumed from a batch, with a result
\* or an error, only when every task of the batch has completed.
C8_ResumeAfterAllTasks ==
    \A b \in BatchIds : batches[b].st # "await" =>
       \A i \in Sites : Finished(batches[b].tids[i])

\* C9: every row is the query followed by exactly one cell per configured
\* site, in the order of TARGET_URLS, whatever the outcomes of its tasks; the
\* header of an output sheet has the same columns, the sites' domains.
C9_RowShape ==
    /\ \A b \in BatchIds : batches[b].st = "row" =>
          /\ Len(batches[b].row) = 1 + NSites
          /\ batches[b].row[1] = PyStr(<<batches[b].query>>)
          /\ \A i \in Sites :
                batches[b].row[i + 1].t \in {"list", "str"}
    /\ outfile.exists =>
          \A k \in 1..Len(outfile.sheets) :
             /\ Len(outfile.sheets[k].header) = 1 + NSites
             /\ \A i \in Sites :
                   outfile.sheets[k].header[i + 1] = netloc(TARGET_URLS[i])
             /\ \A j \in 1..Len(outfile.sheets[k].rows) :
                   Len(outfile.sheets[k].rows[j]) = 1 + NSites

\* a row whose tasks ended in three different ways is in the output
C9_Witness ==
    /\ outfile.exists
    /\ \E b \in BatchIds :
          /\ batches[b].st = "row"
          /\ tasks[batches[b].tids[1]].why = "nav"
          /\ tasks[batches[b].tids[2]].why = "timeout"
    /\ \E b \in BatchIds :
          /\ batches[b].st = "row"
          /\ tasks[batches[b].tids[1]].why = "scanned"

\* the k-th smallest element of a set of numbers
Kth(S, k) == CHOOSE i \in S : Cardinality({j \in S : j <= i}) = k

\* C10: the output written for a workbook has one group per input sheet that
\* has the identifier column, in input order, and in each group one row per
\* non-empty identifier cell, in input order, made of the results of that
\* identifier's own tasks, whatever the order in which the queries completed.
C10_OutputFollowsInput ==
    \A r \in ReqIds : reqs[r].st = "saved" =>
       LET wb == reqs[r].wb
           groups == {i \in 1..Len(wb) : wb[i].hasCol}
       IN  /\ outfile.exists
           /\ Len(outfile.sheets) = Cardinality(groups)
           /\ \A k \in 1..Len(outfile.sheets) :
                 LET g == Kth(groups, k)
                     filled == {j \in 1..Len(wb[g].col) : wb[g].col[j] # NaN}
                     out == outfile.sheets[k]
                 IN  /\ out.sheet = SheetNames[g]
                     /\ Len(out.rows) = Cardinality(filled)
                     /\ \A n \in 1..Len(out.rows) :
                           LET id == wb[g].col[Kth(filled, n)]
                           IN  /\ out.rows[n][1] = PyStr(<<id>>)
                               /\ \A i \in Sites : \E t \in TaskIds :
                                     /\ tasks[t].query = id
                                     /\ tasks[t].url = TARGET_URLS[i]
                                     /\ out.rows[n][i + 1] = RowCell(tasks[t].ret)

\* an output of two groups, the first from a sheet with an empty cell before
\* its identifier
C10_Witness ==
    \E r \in ReqIds :
       /\ reqs[r].st = "saved"
       /\ Len(reqs[r].wb) = 2
       /\ reqs[r].wb[1].col = <<NaN, Ident[1][2]>>
       /\ Len(outfile.sheets) = 2
       /\ Len(outfile.sheets[2].rows) = 1

\* C11: an upload whose workbook cannot be read, or whose output cannot be
\* written, ends with an error result: it is never answered with an output
\* file, in particular not with the one an earlier upload left behind.
C11_IOFailureIsError ==
    \A r \in ReqIds :
        (/\ reqs[r].kind = "upload"
         /\ reqs[r].err \in {"read", "write"}
         /\ reqs[r].resp # <<>>)
        => reqs[r].resp[1].status = "error"

\* C12: a sheet that lacks the identifier column is skipped: no task is
\* submitted for it and no group of it is processed or written, the other
\* sheets are processed and written as if it were absent, and nothing is
\* raised because of it.
C12_SheetWithoutColumnSkipped ==
    \A r \in ReqIds : reqs[r].kind = "upload" /\ reqs[r].st # "new" =>
       LET wb == reqs[r].wb
           kept == {i \in 1..Len(wb) : wb[i].hasCol}
           skipped == {i \in 1..Len(wb) : ~wb[i].hasCol}
           cells(i) == {wb[i].col[j] : j \in 1..Len(wb[i].col)}
       IN  /\ \A i \in skipped :
                /\ \A t \in TaskIds : tasks[t].query \notin cells(i)
                /\ \A b \in BatchIds : batches[b].query \notin cells(i)
                /\ \A k \in 1..Len(reqs[r].final_data) :
                      reqs[r].final_data[k].sheet # SheetNames[i]
           /\ Len(reqs[r].sq) = Cardinality(kept)
           /\ \A k \in 1..Len(reqs[r].sq) :
                 /\ reqs[r].sq[k].sheet = SheetNames[Kth(kept, k)]
                 /\ reqs[r].sq[k].queries = NonEmpty(wb[Kth(kept, k)].col)
           /\ reqs[r].st = "saved" =>
                 [k \in 1..Len(outfile.sheets) |-> outfile.sheets[k].sheet]
                    = [k \in 1..Cardinality(kept) |-> SheetNames[Kth(kept, k)]]
           /\ reqs[r].st = "failed" /\ reqs[r].readable =>
                 reqs[r].err \in {"task", "write"}

\* a workbook whose first sheet lacks the column and whose second sheet has
\* one identifier: the output holds the second sheet alone, with its row
C12_Witness ==
    \E r \in ReqIds :
       /\ reqs[r].st = "saved"
       /\ Len(reqs[r].wb) = 2
       /\ ~reqs[r].wb[1].hasCol
       /\ reqs[r].wb[2].col = <<Ident[2][1]>>
       /\ Len(outfile.sheets) = 1
       /\ outfile.sheets[1].sheet = SheetNames[2]
       /\ Len(outfile.sheets[1].rows) = 1
       /\ Len(tasks) = NSites

\* a price string as clean_price returns it
IsPriceString(s) ==
    \/ s = PRICE_ON_REQUEST
    \/ /\ Len(s) >= 2
       /\ s[1] \in Digit
       /\ s[Len(s)] = " "

\* a PriceResult: the "not found" or the "error" sentinel, or a sequence of 1
\* to MaxScan price strings (the "not found" literal alone in a list included)
WellFormed(cell) ==
    \/ cell = PyStr(NOT_FOUND)
    \/ cell = PyStr(ERROR)
    \/ /\ cell.t = "list"
       /\ Len(cell.v) \in 1..MaxScan
       /\ \/ cell.v = <<NOT_FOUND>>
          \/ \A k \in 1..Len(cell.v) : IsPriceString(cell.v[k])

PriceCalls ==
    {<<tasks[t].products[1].text, tasks[t].ret[1]>> :
        t \in {u \in TaskIds : /\ tasks[u].why = "scanned"
                               /\ Len(tasks[u].products) = 1
                               /\ tasks[u].products[1].has}}

HasDigit(text) == \E i \in 1..Len(text) : text[i] \in Digit

\* C14: for a text in which the numeric pattern matches, clean_price returns
\* a string that, apart from its single trailing space, consists of digits
\* and at most one period, with no whitespace of any kind inside.
C14_NormalForm ==
    \A c \in PriceCalls : HasDigit(c[1]) =>
       LET p == c[2]
           body == SubSeq(p, 1, Len(p) - 1)
       IN  /\ p[Len(p)] = " "
           /\ \A i \in 1..Len(body) : body[i] \in Digit \cup {"."}
           /\ Cardinality({i \in 1..Len(body) : body[i] = "."}) <= 1

Resolved == {t \in TaskIds : tasks[t].sel # <<>>}

\* the locators configured for the i-th registered site
Configured(i) ==
    <<<<selector_map[i].sel[1], selector_map[i].sel[2]>>,
      <<selector_map[i].sel[3], selector_map[i].sel[4]>>>>

\* C16: for every URL whose domain is that of a registered site,
\* get_selectors returns exactly that site's pair of locators: the first
\* entry in registry order whose key is in the domain wins, so 220volt.kz,
\* which also contains volt.kz, resolves to its own entry.
C16_OwnSelectors ==
    \A t \in TaskIds :
       /\ t \in Resolved =>
             \A i \in 1..Len(selector_map) :
                netloc(tasks[t].url) \in {selector_map[i].key,
                                          WWW \o selector_map[i].key}
                => tasks[t].sel = Configured(i)
       /\ tasks[t].url \in RegisteredUrls /\ tasks[t].why # "" =>
             tasks[t].why \notin {"unsupported"}

\* the page of 220volt.kz was scanned with the locators of 220volt.kz, which
\* are not those of volt.kz
C16_Witness ==
    \E t \in TaskIds :
       /\ netloc(tasks[t].url) = selector_map[3].key
       /\ Contains(selector_map[8].key, netloc(tasks[t].url))
       /\ tasks[t].why = "scanned"
       /\ tasks[t].sel = Configured(3)
       /\ Configured(3) # Configured(8)

\* C17: for a query and given outcomes of its per-site tasks, a search yields
\* for each site, in the order of TARGET_URLS, the same price result as the
\* cell of the batch row built for that query.
C17_SearchEqualsRow ==
    \A s \in BatchIds, b \in BatchIds :
       (/\ reqs[batches[s].req].kind = "search"
        /\ reqs[batches[s].req].st = "ok"
        /\ reqs[batches[b].req].kind = "upload"
        /\ batches[b].st = "row"
        /\ batches[s].query = batches[b].query
        /\ \A i \in Sites :
              tasks[batches[s].tids[i]].ret = tasks[batches[b].tids[i]].ret)
       => \A i \in Sites :
             /\ reqs[batches[s].req].resp[i].URL = TARGET_URLS[i]
             /\ PyList(reqs[batches[s].req].resp[i].Prices) = batches[b].row[i + 1]

\* C18: when the container locator matches at least one element, the task
\* returns the normalized prices of exactly those among the first 5 matched
\* containers that hold a price element, in container order; a container
\* without one is skipped without ending the scan, containers after the
\* fifth never contribute, and with no price among the first 5 the result is
\* "not found".
C18_ScanFirstFive ==
    \A t \in TaskIds : tasks[t].why = "scanned" =>
       LET ps == tasks[t].products
           priced == {i \in 1..Len(ps) : i <= 5 /\ ps[i].has}
       IN  /\ Len(ps) >= 1
           /\ IF priced = {}
              THEN tasks[t].ret = <<NOT_FOUND>>
              ELSE /\ Len(tasks[t].ret) = Cardinality(priced)
                   /\ \A k \in 1..Len(tasks[t].ret) :
                         tasks[t].ret[k] = clean_price(ps[Kth(priced, k)].text)

\* six containers, the second and the fourth without a price element, the
\* sixth with one: three prices are returned, those of containers 1, 3 and 5
C18_Witness ==
    \E t \in TaskIds :
       /\ tasks[t].why = "scanned"
       /\ Len(tasks[t].products) = 6
       /\ tasks[t].products[1] = Priced(T1)
       /\ ~tasks[t].products[2].has
       /\ tasks[t].products[3] = Priced(T2)
       /\ ~tasks[t].products[4].has
       /\ tasks[t].products[5] = Priced(T1)
       /\ tasks[t].products[6] = Priced(T1)
       /\ tasks[t].ret = <<clean_price(T1), PRICE_ON_REQUEST, clean_price(T1)>>

\* every request has been answered, every gather has resumed, and every
\* submitted task has run and finished
Settled ==
    /\ queue = <<>>
    /\ \A t \in TaskIds : tasks[t].pc \in {"done", "raised"}
    /\ \A b \in BatchIds : batches[b].st # "await"
    /\ \A r \in ReqIds :
          /\ reqs[r].kind = "upload" => reqs[r].resp # <<>>
          /\ reqs[r].kind = "search" => reqs[r].st \in {"ok", "error"}

\* C19: with a pool of MaxWorkers threads and more tasks submitted than
\* that, at most MaxWorkers tasks run at any time and the others wait in the
\* queue; under fair scheduling every submitted task eventually runs and
\* finishes, every gather resolves and every coordinator resumes.
C19_BoundedPoolTerminates ==
    /\ [](/\ Cardinality({t \in TaskIds :
                            tasks[t].pc \in {"get", "selectors", "wait"}})
             <= MaxWorkers
          /\ \A t \in TaskIds :
                tasks[t].pc = "queued" <=> \E k \in 1..Len(queue) : queue[k] = t)
    /\ <>[]Settled

\* four tasks were submitted to the two threads: two run, two wait in the queue
C19_Witness ==
    /\ Len(tasks) > MaxWorkers
    /\ Cardinality({t \in TaskIds : tasks[t].pc \in {"get", "selectors", "wait"}})
          = MaxWorkers
    /\ Len(queue) = Len(tasks) - MaxWorkers

\* C20: for every interleaving of two uploads handled concurrently, the
\* workbook returned to a request holds the table computed from that
\* request's own workbook, never the other's.
C20_OwnOutputReturned ==
    \A r \in ReqIds :
       (/\ reqs[r].kind = "upload"
        /\ reqs[r].st = "saved"
        /\ reqs[r].resp # <<>>)
       => reqs[r].resp = FileResponse(save_results(reqs[r].final_data))

====
